---------------------------- MODULE Spec2Model ----------------------------
(***************************************************************************)
(* A model of esgpull: the artifact lifecycle and the `retry` command      *)
(* (cli/retry.py, db/models.py), the content-addressed Query model         *)
(* (models/query.py), the facet vocabulary refresh and the local           *)
(* reconciliation (__init__.py) and the resolution of hit records          *)
(* (db/models.py).                                                         *)
(*                                                                         *)
(* Each subsystem has its own specification over the shared variables:     *)
(*   Spec          the lifecycle: retry invocations racing a downloader    *)
(*   SpecMerge     lhs << rhs on two Queries drawn from the inputs         *)
(*   SpecIdentity  two Queries of the same content: tags, hash, clone      *)
(*   SpecMutate    assignments, hashes, names and merges on one Query      *)
(*   SpecParams    fetch_params calls against a federation that may fail   *)
(*   SpecScan      files appear on disk, scan_local_files reconciles them  *)
(*   SpecResolve   File.from_dict on hit records, one after the other      *)
(*   SpecFrame     the lifecycle, each retry's status list kept in state   *)
(***************************************************************************)
EXTENDS Integers, Sequences, FiniteSets, TLC

VARIABLES
    fileStatus,     \* db table `file`: File.status of every persisted artifact
    pc,             \* per retry invocation: "idle" | "called" | "selected"
    retryArgs,      \* per retry invocation: <<status, _all>> of a call that has not read yet
    retryFiles,     \* per retry invocation: the local `files` (retry.py l.30)
    retryOutcome,   \* per retry invocation: how the last invocation ended
    retryStatus,    \* per retry invocation: its local `status` list (retry.py l.22-25), where recorded
    lhs,            \* a Query object (the left operand of <<, the base)
    rhs,            \* a second Query object (the right operand, the override)
    ret,            \* what the last Query operation returned
    params,         \* db table `param`: the <<name, value>> rows
    fetchArg,       \* the `update` argument of the last fetch_params call
    fetchRet,       \* what the last fetch_params call returned ("raised": it raised)
    fetchReqs,      \* the number of remote requests the last fetch_params call issued
    localPaths,     \* the netcdf files on disk: <<version directory, filename>>
    dbFiles,        \* db table `file` as scan_local_files sees it: the <<version, filename>> installed done
    scanHits,       \* the search results of the last scan_local_files call
    scanReport,     \* what the last scan_local_files call printed
    raw,            \* the raw hit record last given to File.from_dict
    file,           \* what File.from_dict made of it (a File, or the error raised)
    prev            \* the identifiers of the File resolved before it

lifecycleVars == <<fileStatus, pc, retryArgs, retryFiles, retryOutcome, retryStatus>>
queryVars == <<lhs, rhs, ret>>
paramVars == <<params, fetchArg, fetchRet, fetchReqs>>
scanVars == <<localPaths, dbFiles, scanHits, scanReport>>
resolveVars == <<raw, file, prev>>
vars == <<lifecycleVars, queryVars, paramVars, scanVars, resolveVars>>

(***************************************************************************)
(* Bounds                                                                  *)
(***************************************************************************)
NumFiles == 2

Files == 1..NumFiles

\* Two retry invocations may run at the same time (two CLI processes).
Procs == {"p1", "p2"}

(***************************************************************************)
(* db/models.py: FileStatus                                                *)
(***************************************************************************)
FileStatus ==
    {"new", "queued", "starting", "started", "pausing", "paused",
     "error", "cancelled", "done"}

\* A plausible slip: `new` left out of the retryable list.
retryable_without_new ==
    {"starting", "started", "pausing", "paused", "error", "cancelled"}

retryable ==
    {"new", "starting", "started", "pausing", "paused", "error", "cancelled"}

(***************************************************************************)
(* cli/retry.py                                                            *)
(***************************************************************************)
\* The explicit status lists a caller may give (as sets: only membership is
\* read): no status, any single status, and lists that mix statuses.
StatusArgs ==
    {s \in SUBSET FileStatus : Cardinality(s) <= 1}
        \cup {{"error", "done"}, {"queued", "paused"}, {"started", "error"}}

\* The command lines: a status list without --all, and --all with no list or
\* with a list (which l.23 overwrites).
RetryArgs == (StatusArgs \X {FALSE}) \cup {<<{}, TRUE>>, <<{"done"}, TRUE>>}

\* No pending call: a list no command line gives.
NoArgs == <<{"-"}, FALSE>>

\* l.22-25: the status list the invocation works with.
EffectiveStatus(status, all) ==
    LET s1 == IF all THEN retryable ELSE status
    IN  IF s1 = {} THEN {"error", "cancelled"} ELSE s1

\* l.28-29: the two assertions; a failure is raised as Abort by ui.logging.
Rejected(status, all) ==
    \/ "done" \in EffectiveStatus(status, all)
    \/ "queued" \in EffectiveStatus(status, all)

\* l.30: sql.file.with_status(*status) against the current table.
WithStatus(st) == {f \in Files : fileStatus[f] \in st}

\* l.17-21: the command is invoked with its arguments.
RetryCall(p, status, all) ==
    /\ pc[p] = "idle"
    /\ pc' = [pc EXCEPT ![p] = "called"]
    /\ retryArgs' = [retryArgs EXCEPT ![p] = <<status, all>>]
    /\ retryFiles' = [retryFiles EXCEPT ![p] = {}]
    /\ retryOutcome' = [retryOutcome EXCEPT ![p] = "none"]
    /\ UNCHANGED fileStatus

\* l.22-34: the invocation up to and including the read of the table.
RetrySelect(p) ==
    /\ pc[p] = "called"
    /\ retryArgs' = [retryArgs EXCEPT ![p] = NoArgs]
    /\ UNCHANGED fileStatus
    /\ LET status == retryArgs[p][1]
           all == retryArgs[p][2]
       IN  IF Rejected(status, all)
           THEN /\ retryOutcome' = [retryOutcome EXCEPT ![p] = "Abort"]
                /\ pc' = [pc EXCEPT ![p] = "idle"]
                /\ UNCHANGED retryFiles
           ELSE LET files == WithStatus(EffectiveStatus(status, all))
                IN  IF files = {}
                    THEN /\ retryOutcome' = [retryOutcome EXCEPT ![p] = "Exit"]
                         /\ pc' = [pc EXCEPT ![p] = "idle"]
                         /\ UNCHANGED retryFiles
                    ELSE /\ pc' = [pc EXCEPT ![p] = "selected"]
                         /\ retryFiles' = [retryFiles EXCEPT ![p] = files]
                         /\ UNCHANGED retryOutcome

\* l.35-44: every file read is set to queued and written back.
RetryCommit(p) ==
    /\ pc[p] = "selected"
    /\ fileStatus' = [f \in Files |->
                        IF f \in retryFiles[p] THEN "queued" ELSE fileStatus[f]]
    /\ pc' = [pc EXCEPT ![p] = "idle"]
    /\ retryOutcome' = [retryOutcome EXCEPT ![p] = "sent"]
    /\ UNCHANGED <<retryArgs, retryFiles>>

(***************************************************************************)
(* The external downloader and the resolver's automatic enqueue: the       *)
(* transitions of the lifecycle's state machine other than retry.          *)
(***************************************************************************)
LifecycleStep ==
    {<<"new", "queued">>, <<"queued", "starting">>, <<"starting", "started">>,
     <<"started", "pausing">>, <<"pausing", "paused">>, <<"paused", "queued">>,
     <<"started", "cancelled">>, <<"starting", "cancelled">>,
     <<"started", "done">>, <<"started", "error">>}

DownloaderUpdate(f, to) ==
    /\ <<fileStatus[f], to>> \in LifecycleStep
    /\ fileStatus' = [fileStatus EXCEPT ![f] = to]
    /\ UNCHANGED <<pc, retryArgs, retryFiles, retryOutcome>>

(***************************************************************************)
(* models/query.py: the Query model.  A hash is modelled as an injective   *)
(* constructor over the canonical content it is computed from.             *)
(***************************************************************************)
\* None, comparable with a hash.
None == <<>>

\* The hashes of two Queries a Query may require.
R1 == <<"sha", "r1">>
R2 == <<"sha", "r2">>

MaxValues == 1

OptionNames == {"distrib", "latest"}
FacetNames == {"project", "variable"}
FacetValue == {"x", "y"}

\* Sequences over S of length at most n, without repetition.
ListsUpTo(S, n) ==
    {l \in UNION {[1..k -> S] : k \in 0..n} :
        \A i, j \in DOMAIN l : i # j => l[i] # l[j]}

Range(s) == {s[i] : i \in DOMAIN s}

\* Options: every flag is "notset" or carries a value.
Sha1(bytes) == <<"sha", bytes>>

OptionsNew(d) ==
    [n \in OptionNames |-> IF n \in DOMAIN d THEN d[n] ELSE "notset"]

OptionsItems(o) == {n \in OptionNames : o[n] # "notset"}

OptionsAsDict(o) == [n \in OptionsItems(o) |-> o[n]]

OptionsBool(o) == OptionsItems(o) # {}

OptionsSha(o) == Sha1(<<"options", OptionsAsDict(o)>>)

\* Selection: a mapping from facet name to its list of values.
SelectionNew(d) == d

SelectionAsDict(s) == s

SelectionBool(s) == DOMAIN s # {}

SelectionSetItem(s, name, values) ==
    [n \in DOMAIN s \cup {name} |-> IF n = name THEN values ELSE s[n]]

SelectionSha(s) == Sha1(<<"selection", s>>)

\* l.68-86 __setattr__: the value stored for an assignment name = value.  A
\* tags value is <<"str", name>> or <<"list", names>>; options and selection
\* values are dicts.
Coerce(name, value) ==
    CASE name = "tags" ->
            IF value[1] = "str" THEN <<value[2]>> ELSE value[2]
      [] name = "options" -> OptionsNew(value)
      [] name = "selection" -> SelectionNew(value)
      [] OTHER -> value

\* l.44-65: Query(**kwargs): the dataclass defaults, then __setattr__.
QueryNew(d) ==
    [tags |-> IF "tags" \in DOMAIN d THEN Coerce("tags", d["tags"]) ELSE <<>>,
     transient |-> IF "transient" \in DOMAIN d THEN d["transient"] ELSE FALSE,
     require |-> IF "require" \in DOMAIN d THEN d["require"] ELSE None,
     options |-> IF "options" \in DOMAIN d
                 THEN Coerce("options", d["options"]) ELSE OptionsNew(<<>>),
     selection |-> IF "selection" \in DOMAIN d
                   THEN Coerce("selection", d["selection"]) ELSE SelectionNew(<<>>),
     sha |-> None]

\* l.88-90 _as_bytes
QueryAsBytes_with_tags(q) ==
    <<q.require, OptionsSha(q.options), SelectionSha(q.selection), q.tags>>

QueryAsBytes(q) ==
    <<q.require, OptionsSha(q.options), SelectionSha(q.selection)>>

\* l.92-97 compute_sha (Base.compute_sha hashes _as_bytes)
ComputeSha(q) == [q EXCEPT !.sha = Sha1(QueryAsBytes(q))]

\* l.99-101 format_name
FormatName(sha) == <<"#", sha>>

\* l.149-163 asdict: the keys present, then the dict.
AsDictKeys_without_require(q) ==
    {k \in {"tags", "transient", "options", "selection"} :
        \/ k = "tags" /\ Len(q.tags) >= 1
        \/ k = "transient" /\ q.transient
        \/ k = "options" /\ OptionsBool(q.options)
        \/ k = "selection" /\ SelectionBool(q.selection)}

AsDictKeys(q) ==
    {k \in {"tags", "transient", "require", "options", "selection"} :
        \/ k = "tags" /\ Len(q.tags) >= 1
        \/ k = "transient" /\ q.transient
        \/ k = "require" /\ q.require # None
        \/ k = "options" /\ OptionsBool(q.options)
        \/ k = "selection" /\ SelectionBool(q.selection)}

AsDict(q) ==
    [k \in AsDictKeys(q) |->
        CASE k = "tags" ->
                IF Len(q.tags) > 1 THEN <<"list", q.tags>>
                ELSE <<"str", q.tags[1]>>
          [] k = "transient" -> q.transient
          [] k = "require" -> q.require
          [] k = "options" -> OptionsAsDict(q.options)
          [] k = "selection" -> SelectionAsDict(q.selection)]

\* l.165-169 clone
Clone(q, compute_sha) ==
    LET instance == QueryNew(AsDict(q))
    IN  IF compute_sha THEN ComputeSha(instance) ELSE instance

\* l.180-182: the tags of other that self does not hold are appended.
LshiftTags(self, result, other) ==
    result.tags \o SelectSeq(other.tags, LAMBDA t : t \notin Range(self.tags))

\* l.183-184: every set option of other is assigned to self.options.
LshiftOptions(self, other) ==
    [n \in OptionNames |->
        IF n \in OptionsItems(other.options)
        THEN other.options[n] ELSE self.options[n]]

\* l.185-186: every facet of other replaces the result's.
RECURSIVE SetItems(_, _, _)
SetItems(s, o, names) ==
    IF names = {} THEN s
    ELSE LET n == CHOOSE x \in names : TRUE
         IN  SetItems(SelectionSetItem(s, n, o[n]), o, names \ {n})

LshiftSelection_union(result, other) ==
    [n \in DOMAIN result.selection \cup DOMAIN other.selection |->
        IF n \in DOMAIN result.selection
        THEN IF n \in DOMAIN other.selection
             THEN result.selection[n] \o
                  SelectSeq(other.selection[n],
                            LAMBDA v : v \notin Range(result.selection[n]))
             ELSE result.selection[n]
        ELSE other.selection[n]]

LshiftSelection(result, other) ==
    SetItems(result.selection, other.selection, DOMAIN other.selection)

\* l.176-189 __lshift__: the Query returned ...
LshiftResult(self, other) ==
    LET result == Clone(self, FALSE)
    IN  ComputeSha([result EXCEPT
                      !.tags = LshiftTags(self, result, other),
                      !.selection = LshiftSelection(result, other),
                      !.transient = other.transient])

\* ... and self after the call (l.184 assigns to self.options).
LshiftSelf(self, other) ==
    [self EXCEPT !.options = LshiftOptions(self, other)]

NoRet == [kind |-> "none"]

\* ret = lhs << rhs
Merge ==
    /\ ret' = [kind |-> "lshift", value |-> LshiftResult(lhs, rhs)]
    /\ lhs' = LshiftSelf(lhs, rhs)
    /\ UNCHANGED rhs

\* The two Query objects of the model, by name.
Obj(t) == IF t = "lhs" THEN lhs ELSE rhs

Store(t, q) ==
    IF t = "lhs" THEN lhs' = q /\ UNCHANGED rhs ELSE rhs' = q /\ UNCHANGED lhs

\* l.68-86: t.name = value
SetAttr(t, name, value) ==
    /\ Store(t, [Obj(t) EXCEPT ![name] = Coerce(name, value)])
    /\ ret' = NoRet

\* l.92-97: t.compute_sha()
ComputeShaStep(t) ==
    /\ Store(t, ComputeSha(Obj(t)))
    /\ ret' = NoRet

\* l.120-125: t.name
NameStep(t) ==
    LET q == IF Obj(t).sha = None THEN ComputeSha(Obj(t)) ELSE Obj(t)
    IN  /\ Store(t, q)
        /\ ret' = [kind |-> "name", name |-> FormatName(q.sha)]

\* l.165-169: t.clone()
CloneStep(t) ==
    /\ ret' = [kind |-> "clone", value |-> Clone(Obj(t), TRUE)]
    /\ UNCHANGED <<lhs, rhs>>

(***************************************************************************)
(* The inputs of the Query specifications                                  *)
(***************************************************************************)
Dicts(K, V) == UNION {[S -> V] : S \in SUBSET K}

OptionsArgs == Dicts(OptionNames, {"true", "false"})

SelectionArgs == Dicts(FacetNames, ListsUpTo(FacetValue, MaxValues) \ {<<>>})

\* The tags and transient arguments of the operands.
MetaArgs ==
    {<<>>, [tags |-> <<"str", "a">>, transient |-> TRUE],
     [tags |-> <<"list", <<"b", "a">>>>]}

\* The keyword arguments of Query(...).
QueryKwargs(require) ==
    {[k \in DOMAIN m \cup r \cup ({"options"} \cap o[1]) \cup ({"selection"} \cap s[1])
        |-> CASE k \in DOMAIN m -> m[k]
              [] k = "require" -> require
              [] k = "options" -> o[2]
              [] k = "selection" -> s[2]] :
       m \in MetaArgs, r \in {{}, {"require"}},
       o \in ({{}} \X {<<>>}) \cup ({{"options"}} \X OptionsArgs),
       s \in ({{}} \X {<<>>}) \cup ({{"selection"}} \X SelectionArgs)}

QueryArgs(require) == {QueryNew(d) : d \in QueryKwargs(require)}

ParamsIdle ==
    /\ params = {}
    /\ fetchArg = FALSE
    /\ fetchRet = "none"
    /\ fetchReqs = 0

NoReport == [kind |-> "none", installed |-> 0, remaining |-> 0]

ScanIdle ==
    /\ localPaths = {}
    /\ dbFiles = {}
    /\ scanHits = {}
    /\ scanReport = NoReport

NoFile == [kind |-> "none"]

ResolveIdle ==
    /\ raw = <<>>
    /\ file = NoFile
    /\ prev = NoFile

QueryIdle ==
    /\ lhs = QueryNew(<<>>)
    /\ rhs = QueryNew(<<>>)
    /\ ret = NoRet

LifecycleIdle ==
    /\ fileStatus = [f \in Files |-> "new"]
    /\ pc = [p \in Procs |-> "idle"]
    /\ retryArgs = [p \in Procs |-> NoArgs]
    /\ retryFiles = [p \in Procs |-> {}]
    /\ retryOutcome = [p \in Procs |-> "none"]
    /\ retryStatus = [p \in Procs |-> {}]

(***************************************************************************)
(* SpecMerge: lhs << rhs on operands drawn from the inputs              *)
(***************************************************************************)
InitMerge ==
    /\ LifecycleIdle
    /\ ParamsIdle
    /\ ScanIdle
    /\ ResolveIdle
    /\ lhs \in QueryArgs(R1)
    /\ rhs \in QueryArgs(R2)
    /\ ret = NoRet

NextMerge == ret = NoRet /\ Merge /\ UNCHANGED <<lifecycleVars, paramVars, scanVars, resolveVars>>

SpecMerge == InitMerge /\ [][NextMerge]_vars

(***************************************************************************)
(* SpecIdentity: two Queries built from the same content, of which one is  *)
(* given other tags and another transient flag; both are hashed and the    *)
(* first is cloned.                                                        *)
(***************************************************************************)
InitIdentity ==
    /\ LifecycleIdle
    /\ ParamsIdle
    /\ ScanIdle
    /\ ResolveIdle
    /\ \E d \in QueryKwargs(R1) : lhs = QueryNew(d) /\ rhs = QueryNew(d)
    /\ ret = NoRet

NextIdentity ==
    \/ \E v \in {<<"str", "b">>, <<"list", <<"a", "b">>>>, <<"list", <<>>>>} :
          SetAttr("rhs", "tags", v) /\ UNCHANGED <<lifecycleVars, paramVars, scanVars, resolveVars>>
    \/ \E v \in BOOLEAN :
          SetAttr("rhs", "transient", v) /\ UNCHANGED <<lifecycleVars, paramVars, scanVars, resolveVars>>
    \/ \E t \in {"lhs", "rhs"} : ComputeShaStep(t) /\ UNCHANGED <<lifecycleVars, paramVars, scanVars, resolveVars>>
    \/ CloneStep("lhs") /\ UNCHANGED <<lifecycleVars, paramVars, scanVars, resolveVars>>

SpecIdentity == InitIdentity /\ [][NextIdentity]_vars

(***************************************************************************)
(* SpecMutate: one Query is assigned to, hashed, named and merged with a   *)
(* fixed override.                                                         *)
(***************************************************************************)
MutateOptions == {<<>>, [distrib |-> "true"], [distrib |-> "false", latest |-> "true"]}

MutateSelections ==
    {<<>>, [project |-> <<"x">>], [project |-> <<"y">>, variable |-> <<"x">>]}

InitMutate ==
    /\ LifecycleIdle
    /\ ParamsIdle
    /\ ScanIdle
    /\ ResolveIdle
    /\ lhs = QueryNew(<<>>)
    /\ rhs \in {QueryNew([options |-> o, selection |-> s]) :
                  o \in {<<>>, [latest |-> "false"]},
                  s \in {<<>>, [variable |-> <<"y">>]}}
    /\ ret = NoRet

NextMutate ==
    \/ \E v \in {<<"str", "a">>, <<"list", <<>>>>} :
          SetAttr("lhs", "tags", v) /\ UNCHANGED <<lifecycleVars, paramVars, scanVars, resolveVars>>
    \/ \E v \in BOOLEAN :
          SetAttr("lhs", "transient", v) /\ UNCHANGED <<lifecycleVars, paramVars, scanVars, resolveVars>>
    \/ \E v \in {None, R1} :
          SetAttr("lhs", "require", v) /\ UNCHANGED <<lifecycleVars, paramVars, scanVars, resolveVars>>
    \/ \E v \in MutateOptions :
          SetAttr("lhs", "options", v) /\ UNCHANGED <<lifecycleVars, paramVars, scanVars, resolveVars>>
    \/ \E v \in MutateSelections :
          SetAttr("lhs", "selection", v) /\ UNCHANGED <<lifecycleVars, paramVars, scanVars, resolveVars>>
    \/ ComputeShaStep("lhs") /\ UNCHANGED <<lifecycleVars, paramVars, scanVars, resolveVars>>
    \/ NameStep("lhs") /\ UNCHANGED <<lifecycleVars, paramVars, scanVars, resolveVars>>
    \/ Merge /\ UNCHANGED <<lifecycleVars, paramVars, scanVars, resolveVars>>

SpecMutate == InitMutate /\ [][NextMutate]_vars

(***************************************************************************)
(* __init__.py: Esgpull.fetch_params, the facet vocabulary refresh         *)
(***************************************************************************)
MaxNodes == 2

MaxParamLen == 255

SKIP_FACETS ==
    {"cf_standard_name", "variable_long_name", "creation_date", "datetime_end"}

\* The facet names and values the index nodes answer with, and len(value).
ReplyFacets == {"project", "variable"}
ReplyValues == {"a", "b", "c", "d", "e"}
ValueLen(v) == IF v = "LONG" THEN 256 ELSE 1

\* The answers of one index node to a facet request: each value of each
\* facet with its count, at most one of them counted and the others 0; a
\* value of 256 characters with a count; a facet without values; and a
\* facet of SKIP_FACETS.
Reply(pos) ==
    [name \in ReplyFacets \cup {"experiment_id", "creation_date"} |->
        IF name = "creation_date" THEN [v \in {"a"} |-> 1]
        ELSE IF name = "experiment_id" THEN <<>>
        ELSE [v \in ReplyValues \cup {"LONG"} |->
                 IF <<name, v>> \in pos \/ v = "LONG" THEN 1 ELSE 0]]

Replies ==
    {Reply(pos) : pos \in {{}} \cup {{x} : x \in ReplyFacets \X ReplyValues}}

\* What the federation does during one call: the discovery of the index
\* nodes fails, or it names n nodes and the per-node facet requests fail, or
\* they answer.
RemoteOutcomes ==
    {[kind |-> "discovery_fails"]}
        \cup {[kind |-> "facets_fail", nodes |-> n] : n \in 1..MaxNodes}
        \cup UNION {{[kind |-> "ok", nodes |-> n, index_facets |-> f] :
                        f \in [1..n -> Replies]} : n \in 1..MaxNodes}

\* l.58-61: the values kept of one facet of one answer
FacetValues(values) ==
    {value \in DOMAIN values :
        values[value] # 0 /\ ValueLen(value) <= MaxParamLen}

\* l.53-64: facet_counts
FacetCounts(index_facets) ==
    LET kept(i, name) ==
            IF name \in SKIP_FACETS \/ DOMAIN index_facets[i][name] = {}
            THEN {} ELSE FacetValues(index_facets[i][name])
        names == UNION {{name \in DOMAIN index_facets[i] : kept(i, name) # {}} :
                          i \in DOMAIN index_facets}
    IN  [name \in names |->
            UNION {IF name \in DOMAIN index_facets[i] THEN kept(i, name) ELSE {} :
                     i \in DOMAIN index_facets}]

\* l.65-68: new_params
NewParams(index_facets) ==
    LET facet_counts == FacetCounts(index_facets)
    IN  UNION {{<<name, value>> : value \in facet_counts[name]} :
                 name \in DOMAIN facet_counts}

\* l.44-70: the refresh proper, with what the federation does during it
Refresh(remote) ==
    IF remote.kind = "discovery_fails"
    THEN /\ params' = {}                              \* l.44, then l.47 raises
         /\ fetchRet' = "raised"
         /\ fetchReqs' = 1
    ELSE IF remote.kind = "facets_fail"
    THEN /\ params' = {}                              \* l.44, then l.52 raises
         /\ fetchRet' = "raised"
         /\ fetchReqs' = 1 + remote.nodes
    ELSE /\ params' = NewParams(remote.index_facets)  \* l.44, l.69
         /\ fetchRet' = "True"
         /\ fetchReqs' = 1 + remote.nodes

\* fetch_params without the test of l.42-43: every call refreshes
FetchParams_unguarded(update, remote) ==
    /\ fetchArg' = update
    /\ Refresh(remote)

\* l.32-70 fetch_params(update)
FetchParams(update, remote) ==
    /\ fetchArg' = update
    /\ IF params # {} /\ ~update
       THEN /\ fetchRet' = "False"                    \* l.42-43
            /\ fetchReqs' = 0
            /\ UNCHANGED params
       ELSE Refresh(remote)

(***************************************************************************)
(* SpecParams: calls of fetch_params against a federation                  *)
(***************************************************************************)
InitParams ==
    /\ LifecycleIdle
    /\ QueryIdle
    /\ ParamsIdle
    /\ ScanIdle
    /\ ResolveIdle

NextParams ==
    \E update \in BOOLEAN, remote \in RemoteOutcomes :
        FetchParams(update, remote) /\ UNCHANGED <<lifecycleVars, queryVars, scanVars, resolveVars>>

SpecParams == InitParams /\ [][NextParams]_vars

(***************************************************************************)
(* __init__.py: Esgpull.scan_local_files, the local reconciliation         *)
(***************************************************************************)
\* A local file is <<version, filename>>: path.parent.name and path.name
\* (l.80-81).  A search hit is resolved to a File of which the scan reads
\* filename and version (l.90); it is written <<version, filename>> too.
FileNames == {"f.nc", "g.nc"}
Versions == {"v1", "v2"}
Paths == Versions \X FileNames

\* The orders in which fs.glob_netcdf can enumerate a set of paths.
GlobOrders(S) ==
    {o \in [1..Cardinality(S) -> S] : \A p \in S : \E i \in DOMAIN o : o[i] = p}

\* l.76-84: filename_version_dict after the loop over the enumeration `glob`:
\* a tracked path is skipped, a later path replaces the version of an
\* earlier one with the same filename.
RECURSIVE FilenameVersionDict(_, _)
FilenameVersionDict(glob, tracked) ==
    IF glob = <<>> THEN <<>>
    ELSE LET front == FilenameVersionDict(SubSeq(glob, 1, Len(glob) - 1), tracked)
             path == glob[Len(glob)]
         IN  IF path \in tracked THEN front
             ELSE [filename \in DOMAIN front \cup {path[2]} |->
                      IF filename = path[2] THEN path[1] ELSE front[filename]]

\* What context.search can answer for the titles asked: any set of files
\* with one of these filenames.
SearchResults(titles) == SUBSET (Versions \X titles)

\* l.88-91: new_files
NewFiles(search_results, filename_version_dict) ==
    {hit \in search_results : hit[1] = filename_version_dict[hit[2]]}

\* l.72-97 scan_local_files, with the enumeration and the search results
ScanLocalFiles(glob, search_results) ==
    LET filename_version_dict == FilenameVersionDict(glob, dbFiles)
        new_files == NewFiles(search_results, filename_version_dict)
    IN  IF DOMAIN filename_version_dict # {}
        THEN /\ search_results \in SearchResults(DOMAIN filename_version_dict)
             /\ scanHits' = search_results
             /\ dbFiles' = dbFiles \cup new_files                         \* l.92
             /\ scanReport' =
                   [kind |-> "scanned",
                    installed |-> Cardinality(new_files),
                    remaining |-> Cardinality(DOMAIN filename_version_dict)
                                     - Cardinality(new_files)]            \* l.93
             /\ UNCHANGED localPaths
        ELSE /\ search_results = {}
             /\ scanHits' = {}
             /\ scanReport' = [kind |-> "no_new", installed |-> 0, remaining |-> 0]
             /\ UNCHANGED <<localPaths, dbFiles>>

\* A data file appears on disk (copied there, or left by an earlier install).
AddLocalFile(path) ==
    /\ path \notin localPaths
    /\ localPaths' = localPaths \cup {path}
    /\ scanReport' = NoReport
    /\ scanHits' = {}
    /\ UNCHANGED dbFiles

(***************************************************************************)
(* SpecScan: files appear on disk and scan_local_files reconciles them     *)
(***************************************************************************)
InitScan ==
    /\ LifecycleIdle
    /\ QueryIdle
    /\ ParamsIdle
    /\ ScanIdle
    /\ ResolveIdle

NextScan ==
    \/ \E path \in Paths :
          AddLocalFile(path) /\ UNCHANGED <<lifecycleVars, queryVars, paramVars, resolveVars>>
    \/ \E glob \in GlobOrders(localPaths), search_results \in SUBSET Paths :
          /\ ScanLocalFiles(glob, search_results)
          /\ UNCHANGED <<lifecycleVars, queryVars, paramVars, resolveVars>>

SpecScan == InitScan /\ [][NextScan]_vars

(***************************************************************************)
(* db/models.py: File.from_dict, the resolution of a raw hit record        *)
(***************************************************************************)
\* A string is the sequence of its characters; a directory template is the
\* sequence of its %(name)s placeholders.  A value of the raw record is a
\* string or a list of strings, as the index returns single-valued fields.
Plain(s) == [list |-> FALSE, str |-> s]
Listed(s) == [list |-> TRUE, items |-> <<s>>]

\* utils.find_str: the string itself, or the string of a one-element list
FindStr(v) == IF v.list THEN v.items[1] ELSE v.str

\* s.partition(sep)[0] without the cut: the whole string
Partition_whole(s, sep) == s

\* l.117, l.119: s.partition(sep)[0]
Partition(s, sep) ==
    IF \E i \in DOMAIN s : s[i] = sep
    THEN LET first == CHOOSE i \in DOMAIN s :
                         s[i] = sep /\ \A j \in 1..(i - 1) : s[j] # sep
         IN  SubSeq(s, 1, first - 1)
    ELSE s

\* l.125, l.127: s.rsplit(sep, 1)
RSplit1(s, sep) ==
    IF \E i \in DOMAIN s : s[i] = sep
    THEN LET last == CHOOSE i \in DOMAIN s :
                        s[i] = sep /\ \A j \in (i + 1)..Len(s) : s[j] # sep
         IN  <<SubSeq(s, 1, last - 1), SubSeq(s, last + 1, Len(s))>>
    ELSE <<s>>

\* l.124, l.126: ".".join([a, b])
DotJoin(a, b) == a \o <<".">> \o b

\* l.94-113 get_local_path: the path components, or the KeyError of a
\* template placeholder (or of the institute of l.109) that the record lacks
GetLocalPath(rawdict, version) ==
    LET flat(v) == IF v.list /\ Len(v.items) = 1 THEN v.items[1]
                   ELSE IF v.list THEN <<>> ELSE v.str                \* l.96-101
        keys == DOMAIN rawdict \ {"version"}                          \* l.107
        full == FindStr(rawdict["directory_format_template_"])       \* l.102
        template == IF full # <<>> /\ full[1] = "root"
                    THEN Tail(full) ELSE full                         \* l.104
        cordex == "rcm_name" \in keys                                 \* l.108
        known == keys \cup {"version"} \cup (IF cordex THEN {"rcm_model"} ELSE {})
        value(name) ==
            IF name = "version" THEN version
            ELSE IF name = "rcm_model" /\ cordex
            THEN flat(rawdict["institute"]) \o <<"-">> \o flat(rawdict["rcm_name"])
            ELSE flat(rawdict[name])
    IN  IF cordex /\ "institute" \notin keys
        THEN [ok |-> FALSE, path |-> <<>>]                            \* l.109
        ELSE IF \E i \in DOMAIN template : template[i] \notin known
        THEN [ok |-> FALSE, path |-> <<>>]                            \* l.113
        ELSE [ok |-> TRUE, path |-> [i \in DOMAIN template |-> value(template[i])]]

\* l.115-143 from_dict, with the default of File.status (l.67-69)
FromDict(rawdict) ==
    LET dataset_id == Partition(FindStr(rawdict["dataset_id"]), "|")
        filename == FindStr(rawdict["title"])
        url == Partition(FindStr(rawdict["url"]), "|")
        file_id == DotJoin(dataset_id, filename)
        split == RSplit1(dataset_id, ".")
        dataset_master == split[1]
        master_id == DotJoin(dataset_master, filename)
    IN  IF Len(split) < 2 THEN [kind |-> "IndexError"]                \* l.127
        ELSE LET version == split[2]
                 local_path == GetLocalPath(rawdict, version)
             IN  IF ~local_path.ok THEN [kind |-> "KeyError"]         \* l.128
                 ELSE [kind |-> "File",
                       file_id |-> file_id,
                       url |-> url,
                       filename |-> filename,
                       dataset_id |-> dataset_id,
                       master_id |-> master_id,
                       version |-> version,
                       local_path |-> local_path.path,
                       status |-> "new",
                       raw |-> rawdict]

\* The hit records resolved: dataset identities master.version with and
\* without a replica qualifier, file names, urls, and the fields the
\* directory template asks for.
Masters == {<<"a">>, <<"a", ".", "b">>}
VersionSegments == {<<"v", "1">>, <<"v", "2">>}
Qualifiers == {<<>>, <<"|", "n", ".", "o">>, <<"|", "n", "|", "m">>}
Titles == {<<"f">>, <<"f", ".", "n">>}
Urls == {<<"u">>, <<"u", "|", "h", "|", "s">>}

TemplateFields ==
    { ("directory_format_template_" :> <<"root", "project", "version">>)
         @@ ("project" :> <<"p">>) @@ ("version" :> <<"1">>),
      ("directory_format_template_" :> <<"root", "rcm_model", "version">>)
         @@ ("institute" :> <<"i">>) @@ ("rcm_name" :> <<"r">>),
      ("directory_format_template_" :> <<"root", "rcm_model", "version">>)
         @@ ("rcm_name" :> <<"r">>),
      ("directory_format_template_" :> <<"project", "version">>)
         @@ ("institute" :> <<"i">>) }

RawHits ==
    {[name \in DOMAIN fields \cup {"dataset_id", "title", "url"} |->
        LET s == IF name = "dataset_id" THEN DotJoin(m, v) \o q
                 ELSE IF name = "title" THEN title
                 ELSE IF name = "url" THEN u
                 ELSE fields[name]
        IN  IF listed THEN Listed(s) ELSE Plain(s)] :
      m \in Masters, v \in VersionSegments, q \in Qualifiers,
      title \in Titles, u \in Urls, fields \in TemplateFields,
      listed \in BOOLEAN}

\* The identifiers of a resolved File
Identifiers(f) ==
    IF f.kind = "File"
    THEN [kind |-> "File", file_id |-> f.file_id, master_id |-> f.master_id,
          dataset_id |-> f.dataset_id, filename |-> f.filename,
          version |-> f.version]
    ELSE NoFile

\* File.from_dict(rawdict) on the next hit record
Resolve(rawdict) ==
    /\ prev' = IF file.kind = "File" THEN Identifiers(file) ELSE prev
    /\ raw' = rawdict
    /\ file' = FromDict(rawdict)

(***************************************************************************)
(* SpecResolve: hit records resolved one after the other                   *)
(***************************************************************************)
InitResolve ==
    /\ LifecycleIdle
    /\ QueryIdle
    /\ ParamsIdle
    /\ ScanIdle
    /\ ResolveIdle

NextResolve ==
    \E rawdict \in RawHits :
        Resolve(rawdict) /\ UNCHANGED <<lifecycleVars, queryVars, paramVars, scanVars>>

SpecResolve == InitResolve /\ [][NextResolve]_vars

(***************************************************************************)
(* The lifecycle specification                                             *)
(***************************************************************************)
Init ==
    /\ fileStatus = [f \in Files |-> "new"]     \* File.status default, l.67-69
    /\ pc = [p \in Procs |-> "idle"]
    /\ retryArgs = [p \in Procs |-> NoArgs]
    /\ retryFiles = [p \in Procs |-> {}]
    /\ retryOutcome = [p \in Procs |-> "none"]
    /\ retryStatus = [p \in Procs |-> {}]
    /\ QueryIdle
    /\ ParamsIdle
    /\ ScanIdle
    /\ ResolveIdle

Next ==
    \/ \E p \in Procs, a \in RetryArgs :
          RetryCall(p, a[1], a[2]) /\ UNCHANGED <<retryStatus, queryVars, paramVars, scanVars, resolveVars>>
    \/ \E p \in Procs : RetrySelect(p) /\ UNCHANGED <<retryStatus, queryVars, paramVars, scanVars, resolveVars>>
    \/ \E p \in Procs : RetryCommit(p) /\ UNCHANGED <<retryStatus, queryVars, paramVars, scanVars, resolveVars>>
    \/ \E f \in Files, to \in FileStatus :
          DownloaderUpdate(f, to) /\ UNCHANGED <<retryStatus, queryVars, paramVars, scanVars, resolveVars>>

Spec == Init /\ [][Next]_vars

(***************************************************************************)
(* SpecFrame: the lifecycle, with the status list each invocation works    *)
(* with kept from its read to its write                                    *)
(***************************************************************************)
\* l.22-34 with the local `status` of l.22-25 kept while files are selected
RetrySelectStatus(p) ==
    /\ RetrySelect(p)
    /\ retryStatus' =
          [retryStatus EXCEPT ![p] =
              IF pc'[p] = "selected"
              THEN EffectiveStatus(retryArgs[p][1], retryArgs[p][2]) ELSE {}]

\* l.35-44, the invocation and its locals end
RetryCommitStatus(p) ==
    /\ RetryCommit(p)
    /\ retryStatus' = [retryStatus EXCEPT ![p] = {}]

NextFrame ==
    \/ \E p \in Procs, a \in RetryArgs :
          /\ RetryCall(p, a[1], a[2])
          /\ UNCHANGED <<retryStatus, queryVars, paramVars, scanVars, resolveVars>>
    \/ \E p \in Procs :
          /\ RetrySelectStatus(p)
          /\ UNCHANGED <<queryVars, paramVars, scanVars, resolveVars>>
    \/ \E p \in Procs :
          /\ RetryCommitStatus(p)
          /\ UNCHANGED <<queryVars, paramVars, scanVars, resolveVars>>
    \/ \E f \in Files, to \in FileStatus :
          /\ DownloaderUpdate(f, to)
          /\ UNCHANGED <<retryStatus, queryVars, paramVars, scanVars, resolveVars>>

SpecFrame == Init /\ [][NextFrame]_vars

(***************************************************************************)
(* Claims about the lifecycle                                              *)
(***************************************************************************)
\* The seven statuses the claims name as retryable, and the status set a
\* retry invocation selects as the claims describe it: the explicit list, or
\* all seven under the 'all' flag.
SevenStatuses ==
    {"new", "starting", "started", "pausing", "paused", "error", "cancelled"}

ClaimSelected(a) == IF a[2] THEN SevenStatuses ELSE a[1]

NamesDoneOrQueued(a) == ClaimSelected(a) \cap {"done", "queued"} # {}

\* C1 as stated: every artifact whose status is one of the seven and is among
\* the statuses a retry invocation selects is picked up by the invocation
\* (the retry succeeds) and is queued once the invocation has written.
C1_Original ==
    [][\A p \in Procs :
        /\ RetrySelect(p) =>
              \A f \in Files :
                 fileStatus[f] \in SevenStatuses \cap ClaimSelected(retryArgs[p])
                    => (pc'[p] = "selected" /\ f \in retryFiles'[p])
        /\ RetryCommit(p) =>
              \A f \in retryFiles[p] : fileStatus'[f] = "queued"]_vars

\* C1 amended: the same, for the invocations whose selected statuses name
\* neither done nor queued (an invocation that names one is rejected whole).
C1_RetryQueuesSelected ==
    [][\A p \in Procs :
        /\ (RetrySelect(p) /\ ~NamesDoneOrQueued(retryArgs[p])) =>
              \A f \in Files :
                 fileStatus[f] \in SevenStatuses \cap ClaimSelected(retryArgs[p])
                    => (pc'[p] = "selected" /\ f \in retryFiles'[p])
        /\ RetryCommit(p) =>
              \A f \in retryFiles[p] : fileStatus'[f] = "queued"]_vars

\* C1 witness: an invocation has sent a file it selected back to the queue.
C1_Witness ==
    \E p \in Procs, f \in Files :
        /\ retryOutcome[p] = "sent"
        /\ f \in retryFiles[p]
        /\ fileStatus[f] = "queued"

\* C2 as stated: an invocation that names done or queued is rejected and
\* leaves every status unchanged, and no step of any retry invocation changes
\* the status of an artifact that is done or queued when the step is taken.
C2_Original ==
    [][\A p \in Procs :
        /\ (RetrySelect(p) /\ NamesDoneOrQueued(retryArgs[p])) =>
              (retryOutcome'[p] = "Abort" /\ fileStatus' = fileStatus)
        /\ (RetrySelect(p) \/ RetryCommit(p)) =>
              \A f \in Files :
                 fileStatus[f] \in {"done", "queued"} =>
                    fileStatus'[f] = fileStatus[f]]_vars

\* C3 as stated, through the consequence it names: no update of another party
\* comes between a retry's read and its write, so the write of queued never
\* lands on a file that another party has set to done since the read (a read
\* never returns a done file, l.28-30).
C3_Original ==
    [][\A p \in Procs :
        RetryCommit(p) => \A f \in retryFiles[p] : fileStatus[f] # "done"]_vars

\* C14 as stated: a retry invocation changes the status of no artifact whose
\* status, when the invocation writes, is outside the status list it works
\* with; and the list of an invocation given neither statuses nor 'all' is
\* {error, cancelled}.
C14_Original ==
    [][\A p \in Procs :
        /\ (RetrySelectStatus(p) /\ pc'[p] = "selected") =>
              /\ fileStatus' = fileStatus
              /\ retryArgs[p] = <<{}, FALSE>> =>
                    retryStatus'[p] = {"error", "cancelled"}
        /\ RetryCommitStatus(p) =>
              \A f \in Files :
                 fileStatus[f] \notin retryStatus[p]
                    => fileStatus'[f] = fileStatus[f]]_vars

(***************************************************************************)
(* Claims about merge (Query.__lshift__)                                   *)
(***************************************************************************)
\* C4: the merged Selection is right-biased: a facet of the override carries
\* the override's list, a facet of the base alone carries the base's list.
C4_MergeSelectionRightBiased ==
    [][Merge =>
        LET merged == ret'.value.selection
        IN  \A k \in FacetNames :
               /\ k \in DOMAIN rhs.selection =>
                     (k \in DOMAIN merged /\ merged[k] = rhs.selection[k])
               /\ k \in DOMAIN lhs.selection \ DOMAIN rhs.selection =>
                     (k \in DOMAIN merged /\ merged[k] = lhs.selection[k])]_vars

\* C4 witness: a merge of two queries holding different lists for one facet
\* has returned the override's list.
C4_Witness ==
    /\ ret.kind = "lshift"
    /\ \E k \in DOMAIN lhs.selection \cap DOMAIN rhs.selection :
          /\ lhs.selection[k] # rhs.selection[k]
          /\ ret.value.selection[k] = rhs.selection[k]
    /\ \E k \in DOMAIN lhs.selection \ DOMAIN rhs.selection :
          ret.value.selection[k] = lhs.selection[k]

\* C5 as stated: the merged Options are the base's with every flag set in the
\* override replaced by the override's value.
C5_Original ==
    [][Merge =>
        ret'.value.options =
            [n \in OptionNames |->
                IF rhs.options[n] # "notset"
                THEN rhs.options[n] ELSE lhs.options[n]]]_vars

\* C6 as stated: the merge leaves the tags, options, selection, transient
\* flag and require reference of both operands as they were.
C6_Original ==
    [][Merge =>
        \A f \in {"tags", "options", "selection", "transient", "require"} :
            lhs'[f] = lhs[f] /\ rhs'[f] = rhs[f]]_vars

\* C7 as stated: the merged Query has no require reference.
C7_Original == [][Merge => ret'.value.require = None]_vars

\* C7 amended: the merged Query carries the base's require reference (none
\* when the base has none), whatever the override's is.
C7_MergeKeepsBaseRequire == [][Merge => ret'.value.require = lhs.require]_vars

\* C7 witness: a merge of a base that requires r1 with an override that
\* requires r2 has returned a Query that requires r1.
C7_Witness ==
    /\ ret.kind = "lshift"
    /\ lhs.require = R1
    /\ rhs.require = R2
    /\ ret.value.require = R1

(***************************************************************************)
(* Claims about the identity of a Query                                    *)
(***************************************************************************)
SameContent(p, q) ==
    /\ p.require = q.require
    /\ OptionsSha(p.options) = OptionsSha(q.options)
    /\ SelectionSha(p.selection) = SelectionSha(q.selection)

\* C8: the identity depends only on (require, Options identity, Selection
\* identity): two hashed Queries that agree on the three have the same
\* identity whatever their tags and transient flags, and the clone of a Query
\* (rebuilt from asdict) has the identity the Query computes for itself.
C8_IdentityOfContentOnly ==
    /\ (lhs.sha # None /\ rhs.sha # None /\ SameContent(lhs, rhs))
          => lhs.sha = rhs.sha
    /\ ret.kind = "clone" => ret.value.sha = ComputeSha(lhs).sha

\* C8 witness: two hashed Queries with the same non-empty content, other
\* tags and another transient flag, and a clone of the first.
C8_Witness ==
    /\ lhs.sha # None /\ rhs.sha # None
    /\ lhs.require = R1 /\ OptionsBool(lhs.options) /\ SelectionBool(lhs.selection)
    /\ SameContent(lhs, rhs)
    /\ lhs.tags # rhs.tags /\ lhs.transient # rhs.transient
    /\ lhs.sha = rhs.sha
    /\ ret.kind = "clone" /\ ret.value.sha = lhs.sha

\* C9 as stated: the name a Query reports is the one of the hash of its
\* current (require, Options, Selection), whatever assignments and merges
\* came before.
C9_Original ==
    [][NameStep("lhs") =>
        ret'.name = FormatName(Sha1(QueryAsBytes(lhs')))]_vars

(***************************************************************************)
(* Claims about the vocabulary refresh                                     *)
(***************************************************************************)
\* C10 as stated: a fetch_params call that aborts because the federation is
\* unavailable leaves the persisted vocabulary cache as it was before the
\* call.  (Every step of SpecParams is one call of fetch_params.)
C10_Original == [][fetchRet' = "raised" => params' = params]_vars

\* C11: a fetch_params call on a non-empty cache with update false issues no
\* remote request, leaves the cache as it is and returns False; every other
\* call (cache empty, or update true) goes to the federation: it issues at
\* least the discovery request and ends with True or with the federation's
\* error, and a call that returns True has also queried the index nodes.
C11_NoOpOnlyWhenCachedAndNotForced ==
    [][/\ (params # {} /\ ~fetchArg') =>
             (fetchRet' = "False" /\ fetchReqs' = 0 /\ params' = params)
       /\ (params = {} \/ fetchArg') =>
             /\ fetchRet' \in {"True", "raised"}
             /\ fetchReqs' >= 1
             /\ fetchRet' = "True" => fetchReqs' >= 2]_vars

\* C11 witness: a call with update false that found a non-empty cache and
\* returned False without a request.
C11_Witness ==
    /\ params # {}
    /\ ~fetchArg
    /\ fetchRet = "False"
    /\ fetchReqs = 0

(***************************************************************************)
(* Claims about the local reconciliation                                   *)
(***************************************************************************)
Untracked == localPaths \ dbFiles

\* C12 as stated: after a scan, every untracked local file for which the
\* search returned a hit of its filename and its version is recorded (done);
\* no hit of another version than a local file's is recorded; and the
\* reported remaining number is the number of untracked local files without
\* such a hit, none of which is recorded.
C12_Original ==
    [][scanReport'.kind = "scanned" =>
          /\ \A path \in Untracked : path \in scanHits' => path \in dbFiles'
          /\ \A hit \in scanHits' : hit \notin Untracked => hit \notin dbFiles' \ dbFiles
          /\ \A path \in Untracked : path \notin scanHits' => path \notin dbFiles'
          /\ scanReport'.remaining =
                Cardinality({path \in Untracked : path \notin scanHits'})]_vars

(***************************************************************************)
(* Claims about the resolution of hit records                              *)
(***************************************************************************)
\* t is s cut at its first '|'
Stripped(s, t) ==
    /\ \A i \in DOMAIN t : t[i] # "|"
    /\ Len(t) <= Len(s)
    /\ t = SubSeq(s, 1, Len(t))
    /\ Len(t) < Len(s) => s[Len(t) + 1] = "|"

\* C13: a resolved File is in status new; its dataset_id and url are the
\* raw ones cut at the first '|'; its version is the last '.'-separated
\* segment of the dataset_id; its file_id is dataset_id + "." + filename and
\* its master_id is the file_id without that version segment; two Files
\* resolved from the same dataset_id and filename have the same file_id, and
\* two that differ only in the version have the same master_id.
C13_ResolvedIdentifiers ==
    file.kind = "File" =>
        LET master == SubSeq(file.dataset_id, 1,
                             Len(file.dataset_id) - Len(file.version) - 1)
        IN  /\ file.status = "new"
            /\ Stripped(FindStr(raw["dataset_id"]), file.dataset_id)
            /\ Stripped(FindStr(raw["url"]), file.url)
            /\ file.filename = FindStr(raw["title"])
            /\ \A i \in DOMAIN file.version : file.version[i] # "."
            /\ file.dataset_id = master \o <<".">> \o file.version
            /\ file.file_id = file.dataset_id \o <<".">> \o file.filename
            /\ file.master_id = master \o <<".">> \o file.filename
            /\ prev.kind = "File" =>
                  /\ (prev.dataset_id = file.dataset_id
                         /\ prev.filename = file.filename)
                        => prev.file_id = file.file_id
                  /\ (SubSeq(prev.dataset_id, 1,
                             Len(prev.dataset_id) - Len(prev.version) - 1) = master
                         /\ prev.filename = file.filename)
                        => prev.master_id = file.master_id

\* C13 witness: a File resolved from a hit with a replica qualifier on the
\* dataset_id and on the url, after a File of the same dataset and filename
\* in another version.
C13_Witness ==
    /\ file.kind = "File" /\ prev.kind = "File"
    /\ Len(file.dataset_id) < Len(FindStr(raw["dataset_id"]))
    /\ Len(file.url) < Len(FindStr(raw["url"]))
    /\ prev.version # file.version
    /\ prev.file_id # file.file_id
    /\ prev.master_id = file.master_id

=============================================================================
